---- MODULE Spec2Model ----
(***************************************************************************)
(* Model of src/main.py: the Asset / PortFolio data model and the greedy   *)
(* allocator rebalance_portfolio.                                          *)
(*                                                                         *)
(* Money is counted in cents (market_price is rounded to 2 decimals by     *)
(* Asset.__init__), percentages in hundredths, and the deviation score in  *)
(* thousandths (get_difference_from_target rounds to 3 decimals).  The     *)
(* arithmetic is exact rational arithmetic with round-half-even; the       *)
(* binary floating point error of the Python floats is not modelled.       *)
(*                                                                         *)
(* Asset lists live in a heap so that copy.deepcopy and the aliasing it    *)
(* prevents are visible: a PortFolio is a record holding the address of    *)
(* its asset list and its cached total_value.                              *)
(***************************************************************************)
EXTENDS Integers, Sequences, FiniteSets, TLC

VARIABLES
    heap,               \* allocated address -> list of Asset records
    portfolio,          \* the starting PortFolio (argument of rebalance_portfolio)
    cash_to_invest,     \* CASH_TO_INVEST, the budget
    cash,               \* local cash
    working_portfolio,  \* local working_portfolio
    previous_portfolio, \* local previous_portfolio
    symbol_list,        \* local symbol_list
    sym_idx,            \* position of the for loop in symbol_list (1-based)
    diff_asset_dict,    \* local diff_asset_dict: str key -> PortFolio
    index,              \* local index (iteration counter)
    pc,                 \* control position
    result,             \* value returned by rebalance_portfolio
    call                \* last PortFolio method call and its outcome

vars == <<heap, portfolio, cash_to_invest, cash, working_portfolio,
          previous_portfolio, symbol_list, sym_idx, diff_asset_dict,
          index, pc, result, call>>

----------------------------------------------------------------------------
(* Bounds of the model *)

MaxAssets == 2
MaxBudgetSteps == 5
MaxShares == 2
MaxIterations == 24

Null == "None"
NoPortfolio == [assets |-> -1, total_value |-> 0]
NoCall == [op |-> "none"]

Addr == 0 .. (MaxAssets + 2)

\* symbols the starting portfolios are drawn from; VTI is in no classification
SymbolPool == {"VOO", "VCIT", "VXUS", "VTI"}
Prices == {3000, 5000, 10000}
Quantities == {0, 10}
Budgets == {10000 * k : k \in 1 .. MaxBudgetSteps}

----------------------------------------------------------------------------
(* Classification map *)

AssetClassification ==
    {"STOCKS_USA_SMALL_CAP", "STOCKS_USA_SP500", "STOCKS_EMERGING_MARKET",
     "STOCKS_INTERNATIONAL", "BONDS_CORP", "BONDS_EMERGING_MARKET",
     "REAL_ESTATE"}

\* PercentageTargets, in hundredths
PercentageTargets ==
    [c \in AssetClassification |->
        CASE c = "STOCKS_USA_SMALL_CAP"   -> 10
          [] c = "STOCKS_USA_SP500"       -> 40
          [] c = "STOCKS_EMERGING_MARKET" -> 5
          [] c = "STOCKS_INTERNATIONAL"   -> 25
          [] c = "BONDS_CORP"             -> 10
          [] c = "BONDS_EMERGING_MARKET"  -> 5
          [] c = "REAL_ESTATE"            -> 5]

\* variant: a classification without a case counts as target 0 instead of raising
get_percentage_target_tolerant(classification) ==
    IF classification \in AssetClassification
    THEN [raised |-> "", value |-> PercentageTargets[classification]]
    ELSE [raised |-> "", value |-> 0]

\* get_percentage_target: the target, or the RuntimeError of the fall-through
get_percentage_target(classification) ==
    IF classification \in AssetClassification
    THEN [raised |-> "", value |-> PercentageTargets[classification]]
    ELSE [raised |-> "RuntimeError", value |-> 0]

\* Asset._get_classification: None for a symbol in none of the lists
_get_classification(symbol) ==
    CASE symbol = "VNQ"  -> "REAL_ESTATE"
      [] symbol = "VWO"  -> "STOCKS_EMERGING_MARKET"
      [] symbol = "VCIT" -> "BONDS_CORP"
      [] symbol = "VTWO" -> "STOCKS_USA_SMALL_CAP"
      [] symbol = "VXUS" -> "STOCKS_INTERNATIONAL"
      [] symbol = "VOO"  -> "STOCKS_USA_SP500"
      [] symbol = "VWOB" -> "BONDS_EMERGING_MARKET"
      [] OTHER           -> Null

\* Asset.__init__ (symbol already upper case, market_price already in cents)
Asset(symbol, market_price, quantity) ==
    [symbol |-> symbol, market_price |-> market_price, quantity |-> quantity,
     classification |-> _get_classification(symbol)]

\* Asset.get_value
get_value(asset) == asset.quantity * asset.market_price

----------------------------------------------------------------------------
(* PortFolio *)

RECURSIVE SumValues(_)
SumValues(assets) ==
    IF assets = <<>> THEN 0
    ELSE get_value(Head(assets)) + SumValues(Tail(assets))

\* PortFolio.update_total_value
update_total_value(p, h) == [p EXCEPT !.total_value = SumValues(h[p.assets])]

\* PortFolio.__init__ over the asset list at address a
PortFolio(a, h) == update_total_value([assets |-> a, total_value |-> 0], h)

RECURSIVE SumClassValues(_, _)
SumClassValues(assets, classification) ==
    IF assets = <<>> THEN 0
    ELSE (IF Head(assets).classification = classification
          THEN get_value(Head(assets)) ELSE 0)
         + SumClassValues(Tail(assets), classification)

\* PortFolio.get_percent_classification: the quotient asset_value / total_value
\* as the pair <<numerator, denominator>>, or ZeroDivisionError
get_percent_classification(p, h, classification) ==
    IF p.total_value = 0
    THEN [raised |-> "ZeroDivisionError", num |-> 0, den |-> 1]
    ELSE [raised |-> "", num |-> SumClassValues(h[p.assets], classification),
          den |-> p.total_value]

Abs(x) == IF x < 0 THEN -x ELSE x

\* round(a / b, 0) for b > 0, ties to even
RoundHalfEven(a, b) ==
    LET q == a \div b
        r == a % b
    IN  IF 2 * r < b THEN q
        ELSE IF 2 * r > b THEN q + 1
        ELSE IF q % 2 = 0 THEN q ELSE q + 1

\* the loop of get_difference_from_target over assets[k..]: acc is the sum of
\* |100 * asset_value - target * total_value| so far (the difference times
\* 100 * total_value); the first raise ends the loop
RECURSIVE DifferenceLoop(_, _, _, _)
DifferenceLoop(p, h, k, acc) ==
    IF k > Len(h[p.assets]) THEN [raised |-> "", num |-> acc]
    ELSE LET classification == h[p.assets][k].classification
             pc_ == get_percent_classification(p, h, classification)
             pt == get_percentage_target(classification)
         IN  IF pc_.raised # "" THEN [raised |-> pc_.raised, num |-> 0]
             ELSE IF pt.raised # "" THEN [raised |-> pt.raised, num |-> 0]
             ELSE DifferenceLoop(p, h, k + 1,
                      acc + Abs(100 * pc_.num - pt.value * pc_.den))

\* line 111: round(difference, 3) in thousandths, d being the loop's outcome
RoundedDifference(d, p, h) ==
    IF d.raised # "" THEN [raised |-> d.raised, value |-> 0]
    ELSE IF h[p.assets] = <<>> THEN [raised |-> "", value |-> 0]
    ELSE [raised |-> "", value |-> RoundHalfEven(10 * d.num, p.total_value)]

\* PortFolio.get_difference_from_target (the loop is computed once)
get_difference_from_target(p, h) ==
    CHOOSE r \in {RoundedDifference(d, p, h) :
                     d \in {DifferenceLoop(p, h, 1, 0)}} : TRUE

\* PortFolio.get_asset: position of the first asset with that symbol, 0 = None
get_asset(p, h, symbol) ==
    LET matching == {k \in 1 .. Len(h[p.assets]) : h[p.assets][k].symbol = symbol}
    IN  IF matching # {} THEN CHOOSE k \in matching : \A j \in matching : k <= j
        ELSE 0

\* variant: the quantity is raised but update_total_value is not called
buy_symbol_stale(p, h, symbol, shares) ==
    LET k == get_asset(p, h, symbol)
    IN  IF k # 0
        THEN [raised |-> "", p |-> p,
              h |-> [h EXCEPT ![p.assets][k].quantity = @ + shares]]
        ELSE [raised |-> "RuntimeError", p |-> p, h |-> h]

\* PortFolio.buy_symbol: the portfolio and heap after the call, or RuntimeError
buy_symbol(p, h, symbol, shares) ==
    LET k == get_asset(p, h, symbol)
    IN  IF k # 0
        THEN LET h2 == [h EXCEPT ![p.assets][k].quantity = @ + shares]
             IN  [raised |-> "", p |-> update_total_value(p, h2), h |-> h2]
        ELSE [raised |-> "RuntimeError", p |-> p, h |-> h]

----------------------------------------------------------------------------
(* str(), the dict keys and min() over them *)

Digit(d) == CASE d = 0 -> "0" [] d = 1 -> "1" [] d = 2 -> "2" [] d = 3 -> "3"
              [] d = 4 -> "4" [] d = 5 -> "5" [] d = 6 -> "6" [] d = 7 -> "7"
              [] d = 8 -> "8" [] d = 9 -> "9"

\* code point order of the characters a key is made of
Ord(c) == CASE c = "." -> 46 [] c = "0" -> 48 [] c = "1" -> 49 [] c = "2" -> 50
            [] c = "3" -> 51 [] c = "4" -> 52 [] c = "5" -> 53 [] c = "6" -> 54
            [] c = "7" -> 55 [] c = "8" -> 56 [] c = "9" -> 57

RECURSIVE IntDigits(_)
IntDigits(n) ==
    IF n < 10 THEN <<Digit(n)>>
    ELSE Append(IntDigits(n \div 10), Digit(n % 10))

\* str(x) of the float x = m / 1000, m >= 0: the shortest repr, which keeps at
\* least one decimal and drops trailing zeros
str(m) ==
    LET f == m % 1000
        frac == IF f % 10 # 0
                THEN <<Digit(f \div 100), Digit((f \div 10) % 10), Digit(f % 10)>>
                ELSE IF f % 100 # 0
                THEN <<Digit(f \div 100), Digit((f \div 10) % 10)>>
                ELSE <<Digit(f \div 100)>>
    IN  IntDigits(m \div 1000) \o <<".">> \o frac

\* s < t for Python strings: lexicographic by code point
RECURSIVE StrLess(_, _)
StrLess(s, t) ==
    IF t = <<>> THEN FALSE
    ELSE IF s = <<>> THEN TRUE
    ELSE IF Ord(Head(s)) # Ord(Head(t)) THEN Ord(Head(s)) < Ord(Head(t))
    ELSE StrLess(Tail(s), Tail(t))

\* variant: max() instead of min()
MaxKey(keys) == CHOOSE k \in keys : \A j \in keys : j = k \/ StrLess(j, k)

\* min(diff_asset_dict.keys()) over a non-empty set of keys
MinKey(keys) == CHOOSE k \in keys : \A j \in keys : j = k \/ StrLess(k, j)

EmptyDict == [k \in {} |-> NoPortfolio]

\* diff_asset_dict[key] = value
DictSet(d, key, value) ==
    [k \in DOMAIN d \cup {key} |-> IF k = key THEN value ELSE d[k]]

----------------------------------------------------------------------------
(* Heap: allocation, copy.deepcopy, reclamation of unreferenced lists *)

Alloc(h) ==
    CHOOSE a \in Addr \ DOMAIN h : \A b \in Addr \ DOMAIN h : a <= b

\* variant: no copy is made, the same list is used
deepcopy_alias(h, a) == [h |-> h, a |-> a]

\* copy.deepcopy of the asset list at address a: a new list of new Assets
deepcopy(h, a) ==
    LET new == Alloc(h)
    IN  [h |-> [b \in DOMAIN h \cup {new} |-> IF b = new THEN h[a] ELSE h[b]],
         a |-> new]

\* the lists no longer referenced are reclaimed
Collect(h, live) == [a \in DOMAIN h \cap live |-> h[a]]

DictAddrs(d) == {d[k].assets : k \in DOMAIN d}

----------------------------------------------------------------------------
(* Starting states *)

AssetRecords == {Asset(s, p, q) : s \in SymbolPool, p \in Prices, q \in Quantities}

\* asset lists with pairwise distinct symbols
AssetLists ==
    UNION {{l \in [1 .. n -> AssetRecords] :
               \A i, j \in 1 .. n : i # j => l[i].symbol # l[j].symbol}
           : n \in 0 .. MaxAssets}

\* generate_portfolio: a PortFolio over a freshly built asset list
InitPortfolio(assets) ==
    /\ heap = [a \in {0} |-> assets]
    /\ portfolio = [assets |-> 0, total_value |-> SumValues(assets)]

Init ==
    /\ \E assets \in AssetLists : InitPortfolio(assets)
    /\ cash_to_invest \in Budgets
    /\ cash = 0
    /\ working_portfolio = NoPortfolio
    /\ previous_portfolio = NoPortfolio
    /\ symbol_list = <<>>
    /\ sym_idx = 0
    /\ diff_asset_dict = EmptyDict
    /\ index = 0
    /\ pc = "start"
    /\ result = NoPortfolio
    /\ call = NoCall

----------------------------------------------------------------------------
(* rebalance_portfolio *)

\* lines 160-164
Begin ==
    /\ pc = "start"
    /\ \E c \in {deepcopy(heap, portfolio.assets)} :
          LET w == [assets |-> c.a, total_value |-> portfolio.total_value]
          IN  /\ heap' = c.h
              /\ working_portfolio' = w
              /\ previous_portfolio' = w
    /\ cash' = cash_to_invest
    /\ symbol_list' = [k \in 1 .. Len(heap[portfolio.assets]) |->
                          heap[portfolio.assets][k].symbol]
    /\ index' = 0
    /\ pc' = "while"
    /\ UNCHANGED <<portfolio, cash_to_invest, sym_idx, diff_asset_dict, result, call>>

\* variant: the loop goes on while cash >= 0
WhileCondNonNegative == cash >= 0

\* the loop condition of line 165
WhileCond == cash > 0

\* lines 165-167, the loop is entered (index < MaxIterations keeps the counter
\* finite; no run of Spec is stopped by it, as C5_Terminates shows)
LoopEnter ==
    /\ pc = "while"
    /\ WhileCond
    /\ index < MaxIterations
    /\ diff_asset_dict' = EmptyDict
    /\ sym_idx' = 1
    /\ heap' = Collect(heap, {portfolio.assets, working_portfolio.assets,
                              previous_portfolio.assets})
    /\ pc' = "for"
    /\ UNCHANGED <<portfolio, cash_to_invest, cash, working_portfolio,
                   previous_portfolio, symbol_list, index, result, call>>

\* line 165, the loop is left
LoopExit ==
    /\ pc = "while"
    /\ ~WhileCond
    /\ pc' = "return"
    /\ UNCHANGED <<heap, portfolio, cash_to_invest, cash, working_portfolio,
                   previous_portfolio, symbol_list, sym_idx, diff_asset_dict,
                   index, result, call>>

\* variant: a candidate is recorded without the second share on a key hit
CandidateSingle(h, symbol) ==
    LET c == deepcopy(h, working_portfolio.assets)
        new_portfolio == PortFolio(c.a, c.h)
        b1 == buy_symbol(new_portfolio, c.h, symbol, 1)
        d == get_difference_from_target(b1.p, b1.h)
    IN  IF b1.raised # "" THEN [raised |-> b1.raised]
        ELSE IF d.raised # "" THEN [raised |-> d.raised]
        ELSE [raised |-> "", key |-> str(d.value), p |-> b1.p, h |-> b1.h]

\* variant: on a key hit the share is bought into the recorded candidate,
\* which stays in the dict
CandidateIntoRecorded(h, symbol) ==
    LET c == deepcopy(h, working_portfolio.assets)
        new_portfolio == PortFolio(c.a, c.h)
        b1 == buy_symbol(new_portfolio, c.h, symbol, 1)
        d == get_difference_from_target(b1.p, b1.h)
        diff_key == str(d.value)
        b2 == IF diff_key \in DOMAIN diff_asset_dict
              THEN buy_symbol(diff_asset_dict[diff_key], b1.h, symbol, 1)
              ELSE b1
    IN  IF b1.raised # "" THEN [raised |-> b1.raised]
        ELSE IF d.raised # "" THEN [raised |-> d.raised]
        ELSE [raised |-> "", key |-> diff_key, p |-> b2.p, h |-> b2.h]

\* lines 170-171: a PortFolio over the copied list c, one share bought
FirstShare(c, symbol) ==
    CHOOSE r \in {buy_symbol(new_portfolio, c.h, symbol, 1) :
                     new_portfolio \in {PortFolio(c.a, c.h)}} : TRUE

\* lines 172-175: the key of score d, the second share on a key hit, and the
\* entry to record
Recorded(b1, d, symbol) ==
    LET diff_key == str(d.value)
        b2 == IF diff_key \in DOMAIN diff_asset_dict
              THEN buy_symbol(b1.p, b1.h, symbol, 1)
              ELSE b1
    IN  IF b1.raised # "" THEN [raised |-> b1.raised]
        ELSE IF d.raised # "" THEN [raised |-> d.raised]
        ELSE [raised |-> "", key |-> diff_key, p |-> b2.p, h |-> b2.h]

\* line 172: the score of the candidate b1 (computed once)
Scored(b1, symbol) ==
    CHOOSE r \in {Recorded(b1, d, symbol) :
                     d \in {get_difference_from_target(b1.p, b1.h)}} : TRUE

\* lines 169-175 for one symbol: the candidate, its key, and the state after
\* (the copy and the first purchase are computed once)
Candidate(h, symbol) ==
    CHOOSE r \in {Scored(b1, symbol) :
                     b1 \in {FirstShare(c, symbol) :
                                c \in {deepcopy(h, working_portfolio.assets)}}} : TRUE

\* lines 168-175, one pass of the for loop
Explore ==
    /\ pc = "for"
    /\ sym_idx <= Len(symbol_list)
    /\ \E r \in {Candidate(heap, symbol_list[sym_idx])} :
           IF r.raised # ""
           THEN /\ pc' = "raised"
                /\ call' = [op |-> "rebalance_portfolio", raised |-> r.raised]
                /\ UNCHANGED <<heap, diff_asset_dict, sym_idx>>
           ELSE LET dict == DictSet(diff_asset_dict, r.key, r.p)
                IN  /\ diff_asset_dict' = dict
                    /\ heap' = Collect(r.h, {portfolio.assets,
                                   working_portfolio.assets,
                                   previous_portfolio.assets} \cup DictAddrs(dict))
                    /\ sym_idx' = sym_idx + 1
                    /\ UNCHANGED <<pc, call>>
    /\ UNCHANGED <<portfolio, cash_to_invest, cash, working_portfolio,
                   previous_portfolio, symbol_list, index, result>>

\* line 177 on an empty dict: min() of an empty sequence raises ValueError
SelectEmpty ==
    /\ pc = "for"
    /\ sym_idx > Len(symbol_list)
    /\ DOMAIN diff_asset_dict = {}
    /\ pc' = "raised"
    /\ call' = [op |-> "rebalance_portfolio", raised |-> "ValueError"]
    /\ UNCHANGED <<heap, portfolio, cash_to_invest, cash, working_portfolio,
                   previous_portfolio, symbol_list, sym_idx, diff_asset_dict,
                   index, result>>

\* lines 177-184
Select ==
    /\ pc = "for"
    /\ sym_idx > Len(symbol_list)
    /\ DOMAIN diff_asset_dict # {}
    /\ \E min_diff \in {MinKey(DOMAIN diff_asset_dict)} :
          LET cost_to_buy == diff_asset_dict[min_diff].total_value
                                 - working_portfolio.total_value
          IN  /\ previous_portfolio' = working_portfolio
              /\ working_portfolio' = diff_asset_dict[min_diff]
              /\ cash' = cash - cost_to_buy
              /\ heap' = Collect(heap, {portfolio.assets, working_portfolio.assets}
                                           \cup DictAddrs(diff_asset_dict))
    /\ index' = index + 1
    /\ pc' = "while"
    /\ UNCHANGED <<portfolio, cash_to_invest, symbol_list, sym_idx,
                   diff_asset_dict, result, call>>

\* variant: the working portfolio is returned
ReturnWorking ==
    /\ pc = "return"
    /\ result' = working_portfolio
    /\ heap' = Collect(heap, {portfolio.assets, working_portfolio.assets})
    /\ pc' = "done"
    /\ UNCHANGED <<portfolio, cash_to_invest, cash, working_portfolio,
                   previous_portfolio, symbol_list, sym_idx, diff_asset_dict,
                   index, call>>

\* line 186
Return ==
    /\ pc = "return"
    /\ result' = previous_portfolio
    /\ heap' = Collect(heap, {portfolio.assets, previous_portfolio.assets})
    /\ pc' = "done"
    /\ UNCHANGED <<portfolio, cash_to_invest, cash, working_portfolio,
                   previous_portfolio, symbol_list, sym_idx, diff_asset_dict,
                   index, call>>

Next ==
    \/ Begin
    \/ LoopEnter
    \/ LoopExit
    \/ Explore
    \/ SelectEmpty
    \/ Select
    \/ Return

Spec == Init /\ [][Next]_vars

\* a sequential program takes its next step whenever it has one
LiveSpec == Spec /\ WF_vars(Next)

----------------------------------------------------------------------------
(* The PortFolio methods called on their own: one buy_symbol and then one   *)
(* get_difference_from_target, or get_difference_from_target alone         *)

ApiInit ==
    /\ \E assets \in AssetLists : InitPortfolio(assets)
    /\ cash_to_invest = 0
    /\ cash = 0
    /\ working_portfolio = NoPortfolio
    /\ previous_portfolio = NoPortfolio
    /\ symbol_list = <<>>
    /\ sym_idx = 0
    /\ diff_asset_dict = EmptyDict
    /\ index = 0
    /\ pc = "api"
    /\ result = NoPortfolio
    /\ call = NoCall

\* portfolio.buy_symbol(symbol, shares)
ApiBuy ==
    /\ pc = "api"
    /\ \E symbol \in SymbolPool, shares \in 1 .. MaxShares :
          /\ LET b == buy_symbol(portfolio, heap, symbol, shares)
             IN  /\ heap' = b.h
                 /\ portfolio' = b.p
                 /\ call' = [op |-> "buy_symbol", symbol |-> symbol,
                             shares |-> shares, raised |-> b.raised]
    /\ pc' = "bought"
    /\ UNCHANGED <<cash_to_invest, cash, working_portfolio, previous_portfolio,
                   symbol_list, sym_idx, diff_asset_dict, index, result>>

\* portfolio.get_difference_from_target()
ApiDifference ==
    /\ pc \in {"api", "bought"}
    /\ LET d == get_difference_from_target(portfolio, heap)
       IN  call' = [op |-> "get_difference_from_target", raised |-> d.raised,
                    value |-> d.value]
    /\ pc' = "api_done"
    /\ UNCHANGED <<heap, portfolio, cash_to_invest, cash, working_portfolio,
                   previous_portfolio, symbol_list, sym_idx, diff_asset_dict,
                   index, result>>

ApiNext ==
    \/ ApiBuy
    \/ ApiDifference

ApiSpec == ApiInit /\ [][ApiNext]_vars

----------------------------------------------------------------------------
(* Vocabulary of the properties *)

Assets(p) == heap[p.assets]
Quantity(p) == [k \in 1 .. Len(Assets(p)) |-> Assets(p)[k].quantity]
Symbols(p) == [k \in 1 .. Len(Assets(p)) |-> Assets(p)[k].symbol]
MarketPrices(p) == [k \in 1 .. Len(Assets(p)) |-> Assets(p)[k].market_price]

RECURSIVE SumSeq(_)
SumSeq(q) == IF q = <<>> THEN 0 ELSE Head(q) + SumSeq(Tail(q))

\* what a portfolio cost beyond the starting portfolio
CumulativeCost(p) == p.total_value - portfolio.total_value

\* float(key), in thousandths
RECURSIVE DigitsValue(_)
DigitsValue(ds) ==
    IF ds = <<>> THEN 0
    ELSE 10 * DigitsValue(SubSeq(ds, 1, Len(ds) - 1)) + (Ord(ds[Len(ds)]) - 48)

ParseKey(key) ==
    LET dot == CHOOSE i \in 1 .. Len(key) : key[i] = "."
        frac == SubSeq(key, dot + 1, Len(key))
        padded == frac \o [k \in 1 .. (3 - Len(frac)) |-> "0"]
    IN  1000 * DigitsValue(SubSeq(key, 1, dot - 1)) + DigitsValue(padded)

\* the deviation score of an asset list taken as a portfolio of its own
ScoreOf(assets) ==
    get_difference_from_target([assets |-> 0, total_value |-> SumValues(assets)],
                               [a \in {0} |-> assets])

HasUnclassified ==
    \E k \in 1 .. Len(Assets(portfolio)) :
        Assets(portfolio)[k].classification \notin AssetClassification

AllClassified == ~HasUnclassified

SelectStep == pc = "for" /\ pc' = "while"
ExploreStep == pc = "for" /\ pc' = "for" /\ sym_idx' = sym_idx + 1

----------------------------------------------------------------------------
(* C1: the portfolio returned by rebalance_portfolio has a total_value no  *)
(* greater than the starting portfolio's total_value plus the budget.      *)
C1_WithinBudget ==
    pc = "done" =>
        /\ result.total_value <= portfolio.total_value + cash_to_invest
        /\ SumValues(Assets(result))
               <= SumValues(Assets(portfolio)) + cash_to_invest

\* a run that ended after a step overshot the budget and was discarded
C1_Witness ==
    /\ pc = "done"
    /\ cash < 0
    /\ result.total_value > portfolio.total_value

(* C2 as stated: the returned portfolio is the last working state whose    *)
(* cumulative cost did not exceed the budget, and the discarded state that *)
(* follows it cost strictly more than the budget.                          *)
C2_Original ==
    pc = "done" =>
        /\ result = previous_portfolio
        /\ CumulativeCost(result) <= cash_to_invest
        /\ CumulativeCost(working_portfolio) > cash_to_invest

(* C2 amended: the returned portfolio is the last working state whose      *)
(* cumulative cost is strictly less than the budget; the discarded state   *)
(* that follows it has a cumulative cost greater than or equal to the      *)
(* budget (a state that spends the budget exactly is discarded too).       *)
C2_LastBelowBudget ==
    pc = "done" =>
        /\ result = previous_portfolio
        /\ working_portfolio # previous_portfolio
        /\ working_portfolio.total_value > previous_portfolio.total_value
        /\ CumulativeCost(result) < cash_to_invest
        /\ CumulativeCost(working_portfolio) >= cash_to_invest
        /\ cash = cash_to_invest - CumulativeCost(working_portfolio)

\* the discarded state spent the budget exactly
C2_Witness ==
    /\ pc = "done"
    /\ result = previous_portfolio
    /\ CumulativeCost(working_portfolio) = cash_to_invest

\* the score the claim describes: unclassified assets count in total_value
\* and add no term
RECURSIVE ExcludedSum(_, _)
ExcludedSum(p, k) ==
    IF k > Len(Assets(p)) THEN 0
    ELSE (IF Assets(p)[k].classification \in AssetClassification
          THEN Abs(100 * SumClassValues(Assets(p), Assets(p)[k].classification)
                   - PercentageTargets[Assets(p)[k].classification] * p.total_value)
          ELSE 0)
         + ExcludedSum(p, k + 1)

ExcludedScore(p) ==
    IF p.total_value = 0 THEN 0
    ELSE RoundHalfEven(10 * ExcludedSum(p, 1), p.total_value)

(* C3 as stated: for a portfolio holding an asset whose symbol is in no    *)
(* classification, get_difference_from_target completes without raising   *)
(* and scores the portfolio with that asset left out of the sum.           *)
C3_Original ==
    (call.op = "get_difference_from_target" /\ HasUnclassified) =>
        /\ call.raised = ""
        /\ call.value = ExcludedScore(portfolio)

(* C3 amended: for a portfolio holding an asset whose symbol is in no      *)
(* classification, get_difference_from_target returns no score: it raises  *)
(* ZeroDivisionError when total_value is 0 and otherwise the RuntimeError  *)
(* of get_percentage_target.                                               *)
C3_UnclassifiedRaises ==
    (call.op = "get_difference_from_target" /\ HasUnclassified) =>
        call.raised = IF portfolio.total_value = 0
                      THEN "ZeroDivisionError" ELSE "RuntimeError"

\* a portfolio of value with a classified and an unclassified asset was scored
C3_Witness ==
    /\ call.op = "get_difference_from_target"
    /\ HasUnclassified
    /\ \E k \in 1 .. Len(Assets(portfolio)) :
           /\ Assets(portfolio)[k].classification \in AssetClassification
           /\ Assets(portfolio)[k].quantity > 0
    /\ call.raised = "RuntimeError"

(* C4: no step of rebalance_portfolio changes the starting portfolio (its  *)
(* assets' quantities and prices, its total_value), and building the       *)
(* candidates of an iteration leaves the working portfolio as it was when  *)
(* the iteration began.                                                    *)
C4_NoAliasing ==
    [][/\ portfolio' = portfolio
       /\ Assets(portfolio)' = Assets(portfolio)
       /\ (pc \in {"while", "for"} /\ pc' \in {"for", "raised"}) =>
              /\ working_portfolio' = working_portfolio
              /\ Assets(working_portfolio)' = Assets(working_portfolio)]_vars

\* candidates of a later iteration have been built and differ from the
\* working portfolio, which differs from the starting portfolio
C4_Witness ==
    /\ pc = "for"
    /\ index >= 1
    /\ sym_idx > Len(symbol_list)
    /\ Assets(working_portfolio) # Assets(portfolio)
    /\ \A k \in DOMAIN diff_asset_dict :
           Assets(diff_asset_dict[k]) # Assets(working_portfolio)

(* C5: with positive prices and classified assets rebalance_portfolio      *)
(* terminates: every iteration strictly decreases cash, and the loop is    *)
(* left with cash <= 0.  (A run raises only from a starting portfolio that *)
(* is empty or holds an unclassified asset; the starting portfolio never   *)
(* changes.)                                                               *)
C5_Terminates ==
    /\ [][SelectStep => cash' < cash]_vars
    /\ <>(\/ pc = "done" /\ cash <= 0
          \/ pc = "raised" /\ (HasUnclassified \/ Len(Assets(portfolio)) = 0))

\* a run of several iterations has ended
C5_Witness ==
    /\ pc = "done"
    /\ index >= 3
    /\ cash <= 0

E2EStart ==
    /\ Assets(portfolio) = <<Asset("VOO", 10000, 10), Asset("VCIT", 5000, 10)>>
    /\ portfolio.total_value = 150000
    /\ cash_to_invest = 50000

(* C6: from VOO 10 @ 100.00 and VCIT 10 @ 50.00 with a budget of 500,      *)
(* rebalance_portfolio terminates, the result holds exactly VOO and VCIT,  *)
(* spends at most 500, and scores no worse than the starting portfolio.    *)
C6_EndToEnd ==
    (pc = "start" /\ E2EStart) =>
        <>(/\ pc = "done"
           /\ Symbols(result) = <<"VOO", "VCIT">>
           /\ result.total_value - 150000 <= 50000
           /\ get_difference_from_target(result, heap).raised = ""
           /\ get_difference_from_target(result, heap).value
                  <= get_difference_from_target(portfolio, heap).value)

\* the scenario has run to its end
C6_Witness ==
    /\ E2EStart
    /\ pc = "done"
    /\ Quantity(result) = <<10, 18>>

(* C7: buy_symbol(symbol, n) on a held symbol raises total_value by n      *)
(* times that asset's market_price, raises that asset's quantity by n, and *)
(* leaves every other asset, and that asset's other fields, unchanged.     *)
C7_BuyExact ==
    [][(pc = "api" /\ pc' = "bought"
            /\ call'.symbol \in {Symbols(portfolio)[k] :
                                    k \in 1 .. Len(Assets(portfolio))}) =>
          LET k == CHOOSE k \in 1 .. Len(Assets(portfolio)) :
                       Assets(portfolio)[k].symbol = call'.symbol
          IN  /\ call'.raised = ""
              /\ portfolio'.total_value = portfolio.total_value
                     + call'.shares * Assets(portfolio)[k].market_price
              /\ portfolio'.assets = portfolio.assets
              /\ Assets(portfolio)' = [Assets(portfolio) EXCEPT
                     ![k].quantity = @ + call'.shares]]_vars

\* two shares were bought into a portfolio of two assets
C7_Witness ==
    /\ pc = "bought"
    /\ call.raised = ""
    /\ call.shares = 2
    /\ Len(Assets(portfolio)) = 2
    /\ portfolio.total_value > 0

(* C8: symbols are processed in held order; a candidate whose key is not   *)
(* yet in the dict is recorded with one more share of its symbol, and a    *)
(* candidate whose one-share score is already a key replaces the recorded  *)
(* one under that key and holds two more shares of its symbol.             *)
C8_TieBreak ==
    [][ExploreStep =>
          LET w == Assets(working_portfolio)
              one == [w EXCEPT ![sym_idx].quantity = @ + 1]
              two == [w EXCEPT ![sym_idx].quantity = @ + 2]
              key == str(ScoreOf(one).value)
          IN  /\ symbol_list[sym_idx] = Assets(portfolio)[sym_idx].symbol
              /\ w[sym_idx].symbol = symbol_list[sym_idx]
              /\ DOMAIN diff_asset_dict' = DOMAIN diff_asset_dict \cup {key}
              /\ \A j \in DOMAIN diff_asset_dict \ {key} :
                     /\ diff_asset_dict'[j] = diff_asset_dict[j]
                     /\ heap'[diff_asset_dict[j].assets] = Assets(diff_asset_dict[j])
              /\ heap'[diff_asset_dict'[key].assets] =
                     IF key \in DOMAIN diff_asset_dict THEN two ELSE one
              /\ diff_asset_dict'[key].total_value =
                     SumValues(heap'[diff_asset_dict'[key].assets])]_vars

\* the second symbol's candidate replaced the first one's under the same key
\* and holds two more shares of the second symbol than the working portfolio
C8_Witness ==
    /\ pc = "for"
    /\ sym_idx = 3
    /\ \E k \in DOMAIN diff_asset_dict :
           /\ DOMAIN diff_asset_dict = {k}
           /\ Quantity(diff_asset_dict[k]) =
                  [Quantity(working_portfolio) EXCEPT ![2] = @ + 2]

(* C9: the candidate that becomes the working portfolio is the one         *)
(* recorded under the numerically smallest of the dict's keys.             *)
C9_SmallestScore ==
    [][SelectStep =>
          \E k \in DOMAIN diff_asset_dict :
              /\ working_portfolio' = diff_asset_dict[k]
              /\ \A j \in DOMAIN diff_asset_dict : ParseKey(k) <= ParseKey(j)]_vars

\* a selection among several distinct scores has been made
C9_Witness ==
    /\ pc = "while"
    /\ index >= 1
    /\ Cardinality(DOMAIN diff_asset_dict) >= 2
    /\ \E k \in DOMAIN diff_asset_dict :
           /\ working_portfolio = diff_asset_dict[k]
           /\ \A j \in DOMAIN diff_asset_dict \ {k} : ParseKey(k) < ParseKey(j)

\* p holds the starting symbols in the starting order at the starting
\* prices, with no quantity below its starting quantity
SameHoldings(p) ==
    /\ Symbols(p) = Symbols(portfolio)
    /\ MarketPrices(p) = MarketPrices(portfolio)
    /\ \A k \in 1 .. Len(Assets(p)) : Quantity(p)[k] >= Quantity(portfolio)[k]
    /\ p.total_value = SumValues(Assets(p))

(* C10: every step from the previous to the new working portfolio raises   *)
(* the quantity of exactly one held symbol by 1 or 2 and changes nothing   *)
(* else; every working portfolio and the returned one hold the starting    *)
(* symbols in order at the same prices with quantities >= the starting.    *)
C10_StepShape ==
    /\ [](pc \in {"while", "for", "return"} =>
              SameHoldings(working_portfolio) /\ SameHoldings(previous_portfolio))
    /\ [](pc = "done" => SameHoldings(result))
    /\ [][SelectStep =>
             /\ previous_portfolio' = working_portfolio
             /\ \E i \in 1 .. Len(Assets(working_portfolio)) :
                    /\ Assets(working_portfolio)' =
                           [Assets(working_portfolio) EXCEPT ![i].quantity =
                               Assets(working_portfolio)'[i].quantity]
                    /\ Assets(working_portfolio)'[i].quantity
                           - Assets(working_portfolio)[i].quantity \in {1, 2}]_vars

\* a returned portfolio that grew in two symbols over several steps
C10_Witness ==
    /\ pc = "done"
    /\ index >= 3
    /\ Cardinality({k \in 1 .. Len(Assets(result)) :
                       Quantity(result)[k] > Quantity(portfolio)[k]}) >= 2

====
